---- MODULE Spec2Model ----
(***************************************************************************)
(* a11y-agent: the agent-provider turn protocol (BrowserUseAgentProvider,  *)
(* CuaAgentProvider and its inner Agent) and the interactive loop that     *)
(* drives a provider.                                                      *)
(*                                                                         *)
(* Spec      one provider instance driven by an arbitrary caller: any      *)
(*           sequence of run_full_turn(items, start_url, step_handler)     *)
(*           and close() calls, one call at a time.                        *)
(* LoopSpec  interactive_loop of main.py driving one provider instance.    *)
(* AgentSpec the inner Agent of the desktop variant called directly, with  *)
(*           print_steps chosen by the caller.                             *)
(* VoiceSpec one VoiceIO instance (voice_io.py): a caller thread issuing   *)
(*           play_audio, speak and push_to_talk, the keyboard, the audio   *)
(*           callback and the player process, with the STT provider that   *)
(*           main.py picks by default.  VoiceFairSpec adds the progress    *)
(*           of the calling thread.                                        *)
(* GestureSpec  push_to_talk gestures alone on one VoiceIO, under either   *)
(*           STT provider (OpenAIProvider, SystemSTTProvider).             *)
(* HistorySpec  the browser provider called with item lists that carry a   *)
(*           conversation history.                                         *)
(***************************************************************************)
EXTENDS Integers, Sequences, FiniteSets, TLC

\* ------------------------------------------------------------------ bounds
MaxItems == 1       \* longest items list the arbitrary caller passes
MaxSessions == 2    \* automation sessions one instance creates
MaxTurnItems == 2   \* items the engine outputs during one desktop turn
MaxChecks == 1      \* pending safety checks on one computer_call
MaxTurns == 2       \* provider calls issued by the interactive loop
MaxSpeaks == 2      \* speak(text, cache=True) calls issued on one VoiceIO
MaxFrames == 2      \* frames the audio callback enqueues during one gesture
MaxHistory == 5     \* longest items list a caller holding a history passes

\* ------------------------------------------------------------ text values
SP == " "
NoneContent == <<"None">>          \* the Python value None as a content
Contents == { <<>>, <<SP>>, <<SP, "a">> }
Summary == <<"s">>                 \* history.final_result() of the engine
Fallback == <<"f">>                \* str(history)
StartUrls == { "", "https://google.com" }
Handlers == { "plain_handler", "_handler" }

RECURSIVE lstrip(_)
lstrip(s) ==
    IF s = <<>> THEN s
    ELSE IF Head(s) = SP THEN lstrip(Tail(s)) ELSE s

RECURSIVE rstrip(_)
rstrip(s) ==
    IF s = <<>> THEN s
    ELSE IF s[Len(s)] = SP THEN rstrip(SubSeq(s, 1, Len(s) - 1)) ELSE s

\* str.strip(): leading and trailing whitespace removed
strip(s) == rstrip(lstrip(s))

\* ------------------------------------------------------------------ items
\* One conversation item (a Python dict); absent keys hold "" / 0.
Item(type, role, content, call_id, name, checks) ==
    [type |-> type, role |-> role, content |-> content,
     call_id |-> call_id, name |-> name, checks |-> checks]

UserItem(c) == Item("", "user", c, 0, "", 0)
AssistantItem(c) == Item("", "assistant", c, 0, "", 0)

\* items the arbitrary caller may pass
CallerItems ==
    { UserItem(c) : c \in Contents } \cup { AssistantItem(Summary) }

ItemsSet == UNION { [1..n -> CallerItems] : n \in 0..MaxItems }

Last(s) == s[Len(s)]

\* ------------------------------------------------------------------ state
NoSession == 0      \* self._browser_session / self._computer is None

VARIABLES
    variant,          \* "browser" (BrowserUseAgentProvider) or "cua" (CuaAgentProvider)
    session,          \* _browser_session / _computer: NoSession or a session id
    llm,              \* browser: self._llm is set
    agent,            \* cua: self._agent, [set, computer, step_handler, print_steps]
    initial_turn,     \* cua: self._initial_turn
    created,          \* sessions created so far; their ids are 1..created
    release_calls,    \* session ids on which BrowserSession.stop / __exit__ was called, in order
    closed,           \* close() has been called on this instance
    navigations,      \* navigations to start_url issued so far
    current_url,      \* cua: "ok" or "blocked", the page of the agent's computer
    pc,               \* "idle", or "agent" while Agent.run_full_turn is looping
    new_items,        \* Agent.run_full_turn: new_items
    pending,          \* items of the current response not yet handled
    call,             \* the call in flight or last made: [op, items]
    outcome,          \* how the last call ended
    result,           \* items the last successful run_full_turn returned
    events,           \* what the call in flight / last call did, in order
    engine_in,        \* what the engine was handed at its latest request in that call
    loop_pc,          \* interactive_loop position ("off" under Spec)
    debug,            \* args.debug
    voice,            \* args.voice
    start_url,        \* args.start_url
    conversation_history,
    user_input,
    turns             \* provider calls issued by the loop

VARIABLES
    platform,         \* sys.platform: "darwin", "linux" or "other"
    kb,               \* pynput.keyboard can be imported
    player_installed, \* the platform's player binary exists (afplay; mpg123 or aplay)
    playsound,        \* the playsound module was imported (playsound is not None)
    stt_provider,     \* self.stt_provider: "openai" or "system"
    vpc,              \* position of the thread that calls into VoiceIO
    vcall,            \* the VoiceIO call in flight or last made: [op, text, cache]
    voutcome,         \* how the last VoiceIO call ended
    play_file,        \* play_audio: file_path
    play_ret,         \* where the thread continues when play_audio is over
    player_proc,      \* "none", "running", "exited" (by itself) or "terminated"
    interrupted,      \* play_audio: the interrupted event
    play_listener,    \* play_audio: its key listener is running
    play_outcome,     \* how the last play_audio ended ("none" while it runs)
    play_log,         \* what the play_audio in flight / last run did, in order
    ack_cue,          \* the beep a cancel-key handler plays on its listener thread:
                      \* "none" or "playing"
    files,            \* cache files that exist in self._cache_dir
    audio_path,       \* speak: the file synthesize returned ("" on a cache hit)
    speaks,           \* speak(text, cache=True) calls issued so far
    warm,             \* texts whose cache file existed when the VoiceIO was constructed
    synth_raised,     \* texts for which a synthesize call on the cache path raised
    synth_calls,      \* per text: synthesize calls on its cache path
    cache_plays,      \* per text: play_audio calls speak made on its cache path
    speak_calls,      \* per text: speak(text, cache=True) calls that are over
    pressed_evt,      \* push_to_talk: the three events
    released_evt,
    cancel_evt,
    wait_listener,    \* push_to_talk: the listener waiting for the press is running
    release_listener, \* push_to_talk: the listener waiting for the release is running
    stream_open,      \* push_to_talk: the sd.InputStream is open
    audio_queue,      \* push_to_talk: the frames in audio_queue, oldest first
    enqueued,         \* frames the audio callback has put, in the order of the puts
    audio_data,       \* push_to_talk: np.concatenate(frames), the samples written to the wav
    stt_in,           \* what the transcribe call of the gesture met
    wav_exists,       \* the file named by wav_path of the gesture exists
    space_down,       \* the user holds the space bar
    esc_at,           \* phases of the gesture in flight / last made in which Escape was pressed
    stt_calls,        \* transcribe calls of the gesture
    wav_written,      \* temporary wav files written by the gesture
    ptt_result        \* what push_to_talk returned

env_vars == <<platform, kb, player_installed, playsound, stt_provider>>
play_vars ==
    <<play_file, play_ret, player_proc, interrupted, play_listener, play_outcome,
      play_log>>
speak_vars ==
    <<files, audio_path, speaks, warm, synth_raised, synth_calls, cache_plays,
      speak_calls>>
wav_vars == <<audio_data, stt_in, wav_exists>>
ptt_vars ==
    <<pressed_evt, released_evt, cancel_evt, wait_listener, release_listener,
      stream_open, audio_queue, enqueued, esc_at, stt_calls, wav_written, wav_vars,
      ptt_result>>
voice_vars ==
    <<env_vars, vpc, vcall, voutcome, play_vars, ack_cue, speak_vars, ptt_vars,
      space_down>>

provider_vars ==
    <<variant, session, llm, agent, initial_turn, created, release_calls,
      closed, navigations, current_url>>
turn_vars == <<pc, new_items, pending, call, outcome, result, events, engine_in>>
loop_vars ==
    <<loop_pc, debug, voice, start_url, conversation_history, user_input, turns>>
vars == <<provider_vars, turn_vars, loop_vars, voice_vars>>

NoAgent ==
    [set |-> FALSE, computer |-> NoSession, step_handler |-> "", print_steps |-> FALSE]
NoCall == [op |-> "none", items |-> <<>>]
\* the engine was not asked anything
NoEngineIn == [task |-> <<>>, has_context |-> FALSE, context |-> <<>>]

Ev(e, id) == [ev |-> e, id |-> id]

\* ------------------------------------------------------------ voice values
Platforms == { "darwin", "linux", "other" }

SpeakTexts == Contents \cup { Summary }
NonBlank == { t \in SpeakTexts : strip(t) # <<>> }
\* what a recognition backend hands back for speech: text with a leading blank
RawTranscript == <<SP, "a">>
STTProviders == { "openai", "system" }
\* what one transcribe call meets: a wav it cannot open, or a backend that
\* recognizes text, detects no speech, or fails
SttInputs == { "unreadable", "text", "no_speech", "fails" }
NoSttInput == "none"

\* hashlib.sha256(text.encode("utf-8")).hexdigest()[:32]: the texts of the
\* model have pairwise distinct digests
Key(t) == <<"sha256">> \o t

File(dir, name) == [dir |-> dir, name |-> name]
NoFile == File("", <<>>)
Beep == File("", <<"beep.m4a">>)
Clip == File("", <<"clip.mp3">>)
\* os.path.join(self._cache_dir, f"{key}{ext}")
CachedPath(t) == File("voiceio_cache", Key(t))
\* tempfile.mkstemp(...) of the TTS provider
TempPath == File("tmp", <<"voiceio_tts_">>)

NoVoiceCall == [op |-> "none", text |-> <<>>, cache |-> FALSE]
VoiceCall(op, text, cache) == [op |-> op, text |-> text, cache |-> cache]

ZeroCount == [t \in NonBlank |-> 0]

\* the locals of a play_audio / push_to_talk call are gone once the thread
\* has moved on
PlayForgotten ==
    /\ play_file' = NoFile
    /\ play_ret' = "idle"
    /\ player_proc' = "none"
    /\ interrupted' = FALSE
    /\ play_listener' = FALSE
    /\ play_outcome' = "none"
    /\ play_log' = <<>>

GestureForgotten ==
    /\ pressed_evt' = FALSE
    /\ released_evt' = FALSE
    /\ cancel_evt' = FALSE
    /\ wait_listener' = FALSE
    /\ release_listener' = FALSE
    /\ stream_open' = FALSE
    /\ audio_queue' = <<>>
    /\ enqueued' = <<>>
    /\ esc_at' = {}
    /\ stt_calls' = 0
    /\ wav_written' = 0
    /\ audio_data' = <<>>
    /\ stt_in' = NoSttInput
    /\ wav_exists' = FALSE
    /\ ptt_result' = <<>>

\* no VoiceIO call was made yet
VoiceIdle ==
    /\ vpc = "idle"
    /\ vcall = NoVoiceCall
    /\ voutcome = "none"
    /\ play_file = NoFile
    /\ play_ret = "idle"
    /\ player_proc = "none"
    /\ interrupted = FALSE
    /\ play_listener = FALSE
    /\ play_outcome = "none"
    /\ play_log = <<>>
    /\ ack_cue = "none"
    /\ pressed_evt = FALSE
    /\ released_evt = FALSE
    /\ cancel_evt = FALSE
    /\ wait_listener = FALSE
    /\ release_listener = FALSE
    /\ stream_open = FALSE
    /\ audio_queue = <<>>
    /\ enqueued = <<>>
    /\ esc_at = {}
    /\ stt_calls = 0
    /\ wav_written = 0
    /\ audio_data = <<>>
    /\ stt_in = NoSttInput
    /\ wav_exists = FALSE
    /\ ptt_result = <<>>
    /\ audio_path = NoFile
    /\ speaks = 0
    /\ synth_raised = {}
    /\ synth_calls = ZeroCount
    /\ cache_plays = ZeroCount
    /\ speak_calls = ZeroCount
    /\ space_down = FALSE

\* no VoiceIO is in use
VoiceOff ==
    /\ platform = "linux"
    /\ kb = FALSE
    /\ player_installed = FALSE
    /\ playsound = FALSE
    /\ stt_provider = "openai"
    /\ files = {}
    /\ warm = {}
    /\ VoiceIdle

ProviderInit ==
    /\ variant \in { "browser", "cua" }
    /\ session = NoSession
    /\ llm = FALSE
    /\ agent = NoAgent
    /\ initial_turn = TRUE
    /\ created = 0
    /\ release_calls = <<>>
    /\ closed = FALSE
    /\ navigations = 0
    /\ current_url = "ok"
    /\ pc = "idle"
    /\ new_items = <<>>
    /\ pending = <<>>
    /\ call = NoCall
    /\ outcome = "none"
    /\ result = <<>>
    /\ events = <<>>
    /\ engine_in = NoEngineIn

Init ==
    /\ ProviderInit
    /\ loop_pc = "off"
    /\ debug = FALSE
    /\ voice = FALSE
    /\ start_url = ""
    /\ conversation_history = <<>>
    /\ user_input = <<>>
    /\ turns = 0
    /\ VoiceOff

\* what the provider instance itself holds (its attributes)
ProviderState == <<session, llm, agent, initial_turn>>

ReleaseCount(s) == Cardinality({ i \in DOMAIN release_calls : release_calls[i] = s })

HasEvent(e) == \E i \in DOMAIN events : events[i].ev = e

NewCall(op, items) == [op |-> op, items |-> items]

\* ------------------------------------------- BrowserUseAgentProvider
\* the three input checks of run_full_turn
BrowserInvalidItems(items) ==
    \/ items = <<>>
    \/ Last(items).role # "user"
    \/ strip(Last(items).content) = <<>>

\* a BrowserSession is created by this call
BrowserNeedsSession == session = NoSession

\* initial_actions holds the go_to_url action
BrowserInitialActions(url) == url # "" /\ session = NoSession

\* f"User: {items[i]['content']}\nAgent: {items[i + 1]['content']}"
HistoryPair(u, a) == <<"User: ">> \o u.content \o <<"\nAgent: ">> \o a.content

\* mutant: the scan moves two items ahead whether or not it found a pair
RECURSIVE HistoryPairsStrideTwo(_, _)
HistoryPairsStrideTwo(items, i) ==
    IF ~(i < Len(items) - 1) THEN <<>>
    ELSE IF /\ items[i + 1].role = "user"
            /\ i + 1 < Len(items) - 1
            /\ items[i + 2].role = "assistant"
         THEN <<HistoryPair(items[i + 1], items[i + 2])>>
              \o HistoryPairsStrideTwo(items, i + 2)
         ELSE HistoryPairsStrideTwo(items, i + 2)

\* the while loop that fills history_pairs, from the 0-based index i on
RECURSIVE HistoryPairs(_, _)
HistoryPairs(items, i) ==
    IF ~(i < Len(items) - 1) THEN <<>>
    ELSE IF /\ items[i + 1].role = "user"
            /\ i + 1 < Len(items) - 1
            /\ items[i + 2].role = "assistant"
         THEN <<HistoryPair(items[i + 1], items[i + 2])>> \o HistoryPairs(items, i + 2)
         ELSE HistoryPairs(items, i + 1)

\* sep.join(parts)
RECURSIVE join(_, _)
join(sep, parts) ==
    IF parts = <<>> THEN <<>>
    ELSE IF Len(parts) = 1 THEN parts[1]
    ELSE parts[1] \o sep \o join(sep, Tail(parts))

\* Agent(task=current_task, message_context=message_context, ...); the
\* context is None when history_pairs is empty
BrowserEngineIn(items) ==
    LET history_pairs == HistoryPairs(items, 0)
    IN  [task |-> strip(Last(items).content),
         has_context |-> history_pairs # <<>>,
         context |-> join(<<"\n\n">>, history_pairs)]

\* outcomes of the browser_use engine for one turn
BrowserEngineOutcomes ==
    { "llm_raises", "session_raises", "run_raises",
      "final_result_raises", "final_result", "final_result_none" }

BrowserRunFullTurn(items, url, h) ==
    /\ variant = "browser"
    /\ pc = "idle"
    /\ call' = NewCall("run_full_turn", items)
    /\ UNCHANGED <<variant, agent, initial_turn, current_url, release_calls, closed,
                   pc, new_items, pending>>
    /\ IF BrowserInvalidItems(items)
       THEN /\ outcome' = "InvalidInput"
            /\ result' = <<>>
            /\ events' = <<>>
            /\ engine_in' = NoEngineIn
            /\ UNCHANGED <<session, llm, created, navigations>>
       ELSE \E eng \in BrowserEngineOutcomes, navigated \in BOOLEAN :
            LET need == BrowserNeedsSession
                sid == IF need THEN created + 1 ELSE session
                nav == BrowserInitialActions(url)
                made == IF need THEN <<Ev("create", sid)>> ELSE <<>>
                went == IF nav /\ (eng # "run_raises" \/ navigated)
                        THEN <<Ev("navigate", sid)>> ELSE <<>>
            IN  /\ eng = "llm_raises" => ~llm
                /\ eng = "session_raises" => need
                /\ (need /\ eng \notin { "llm_raises", "session_raises" })
                       => created < MaxSessions
                /\ (eng # "run_raises" \/ ~nav) => navigated
                /\ IF eng = "llm_raises"
                   THEN /\ outcome' = "LlmError"
                        /\ result' = <<>>
                        /\ events' = <<>>
                        /\ engine_in' = NoEngineIn
                        /\ UNCHANGED <<session, llm, created, navigations>>
                   ELSE IF eng = "session_raises"
                   THEN /\ outcome' = "CreateError"
                        /\ llm' = TRUE
                        /\ result' = <<>>
                        /\ events' = <<Ev("create_raised", sid)>>
                        /\ engine_in' = NoEngineIn
                        /\ UNCHANGED <<session, created, navigations>>
                   ELSE /\ llm' = TRUE
                        /\ session' = sid
                        /\ created' = IF need THEN created + 1 ELSE created
                        /\ navigations' = navigations + Len(went)
                        /\ events' = made \o <<Ev("engine", sid)>> \o went
                        /\ engine_in' = BrowserEngineIn(items)
                        /\ IF eng = "run_raises"
                           THEN outcome' = "EngineError" /\ result' = <<>>
                           ELSE /\ outcome' = "returned"
                                /\ result' =
                                     << AssistantItem(
                                          CASE eng = "final_result" -> Summary
                                            [] eng = "final_result_none" -> NoneContent
                                            [] OTHER -> Fallback) >>

\* mutant: the finally clause that drops the session handle is missing
BrowserCloseKeepsSession ==
    /\ variant = "browser"
    /\ pc = "idle"
    /\ call' = NewCall("close", <<>>)
    /\ engine_in' = NoEngineIn
    /\ closed' = TRUE
    /\ outcome' = "closed"
    /\ UNCHANGED <<variant, session, llm, agent, initial_turn, created, navigations,
                   current_url, pc, new_items, pending, result>>
    /\ IF session # NoSession
       THEN \E stop_ok \in BOOLEAN :
            /\ release_calls' = Append(release_calls, session)
            /\ events' = <<Ev(IF stop_ok THEN "release" ELSE "release_raised", session)>>
       ELSE /\ events' = <<>>
            /\ UNCHANGED release_calls

BrowserClose ==
    /\ variant = "browser"
    /\ pc = "idle"
    /\ call' = NewCall("close", <<>>)
    /\ engine_in' = NoEngineIn
    /\ closed' = TRUE
    /\ outcome' = "closed"
    /\ UNCHANGED <<variant, llm, agent, initial_turn, created, navigations,
                   current_url, pc, new_items, pending, result>>
    /\ IF session # NoSession
       THEN \E stop_ok \in BOOLEAN :
            /\ release_calls' = Append(release_calls, session)
            /\ events' = <<Ev(IF stop_ok THEN "release" ELSE "release_raised", session)>>
            /\ session' = NoSession
       ELSE /\ events' = <<>>
            /\ UNCHANGED <<session, release_calls>>

\* --------------------------------------------------- CuaAgentProvider
\* mutant: the role check is missing
CuaInvalidItemsNoRoleCheck(items) == items = <<>>

\* the two input checks of run_full_turn
CuaInvalidItems(items) ==
    \/ items = <<>>
    \/ Last(items).role # "user"

\* mutant: a computer is created on every call
CuaNeedsSessionAlways == TRUE

\* a computer is created and entered by this call
CuaNeedsSession == session = NoSession

\* navigate to start_url on the very first turn only
CuaShouldNavigate(url) == url # "" /\ initial_turn

\* the arguments the provider passes to Agent.run_full_turn
print_steps == FALSE

CuaRunFullTurn(items, url, h) ==
    /\ variant = "cua"
    /\ pc = "idle"
    /\ call' = NewCall("run_full_turn", items)
    /\ engine_in' = NoEngineIn
    /\ UNCHANGED <<variant, llm, release_calls, closed, pending>>
    /\ IF CuaInvalidItems(items)
       THEN /\ outcome' = "InvalidInput"
            /\ result' = <<>>
            /\ events' = <<>>
            /\ UNCHANGED <<session, agent, initial_turn, created, navigations,
                           current_url, pc, new_items>>
       ELSE \E enter_raises \in BOOLEAN, goto_raises \in BOOLEAN :
            LET need == CuaNeedsSession
                sid == IF need THEN created + 1 ELSE session
                nav == CuaShouldNavigate(url)
                made == IF need THEN <<Ev("create", sid)>> ELSE <<>>
                went == IF nav THEN <<Ev("navigate", sid)>> ELSE <<>>
                agent2 == IF agent.set
                          THEN [agent EXCEPT !.step_handler = h,
                                             !.print_steps = print_steps]
                          ELSE [set |-> TRUE, computer |-> sid, step_handler |-> h,
                                print_steps |-> print_steps]
            IN  /\ enter_raises => need
                /\ goto_raises => (nav /\ ~enter_raises)
                /\ (need /\ ~enter_raises) => created < MaxSessions
                /\ result' = <<>>
                /\ new_items' = <<>>
                /\ IF enter_raises
                   THEN /\ outcome' = "CreateError"
                        /\ events' = <<Ev("create_raised", sid)>>
                        /\ UNCHANGED <<session, agent, initial_turn, created,
                                       navigations, current_url, pc>>
                   ELSE /\ session' = sid
                        /\ created' = IF need THEN created + 1 ELSE created
                        /\ agent' = agent2
                        /\ initial_turn' = IF nav THEN FALSE ELSE initial_turn
                        /\ navigations' = navigations + Len(went)
                        /\ current_url' =
                             IF agent2.computer = sid /\ (need \/ (nav /\ ~goto_raises))
                             THEN "ok" ELSE current_url
                        /\ events' = made \o went
                        /\ IF goto_raises
                           THEN outcome' = "NavigationError" /\ pc' = "idle"
                           ELSE outcome' = "running" /\ pc' = "agent"

\* ------------------------------------------------------------ Agent
\* what the engine may put into response["output"]
OutputKinds ==
    { Item("message", "assistant", Summary, 0, "", 0),
      Item("reasoning", "", <<>>, 0, "", 0),
      Item("function_call", "", <<>>, 0, "goto", 0),
      Item("function_call", "", <<>>, 0, "unknown", 0) }
    \cup { Item("computer_call", "", <<>>, 0, "click", k) : k \in 0..MaxChecks }

IsOutput(it) == it.type \in { "function_call_output", "computer_call_output" }

EngineItemCount == Cardinality({ i \in DOMAIN new_items : ~IsOutput(new_items[i]) })

Responses == UNION { [1..n -> OutputKinds] : n \in 1..(MaxTurnItems - EngineItemCount) }

\* the engine numbers its calls; a call's id is its position in new_items
WithIds(out) ==
    [i \in DOMAIN out |-> [out[i] EXCEPT !.call_id = Len(new_items) + i]]

\* base_items[0]: the system message with the assistant's instructions
SystemItem == Item("", "system", <<"instructions">>, 0, "", 0)

\* mutant: the items accumulated so far are left out of the request
AgentEngineInBaseOnly ==
    [task |-> <<>>, has_context |-> TRUE, context |-> <<SystemItem>> \o call.items]

\* create_response(input=context) with context = base_items + new_items
AgentEngineIn ==
    [task |-> <<>>, has_context |-> TRUE,
     context |-> (<<SystemItem>> \o call.items) \o new_items]

\* mutant: the loop stops as soon as there is any new item
LoopContinuesWhileEmpty == new_items = <<>>

\* the while condition of Agent.run_full_turn
LoopContinues ==
    IF new_items # <<>> THEN Last(new_items).role # "assistant" ELSE TRUE

\* hasattr(self.computer, name)
HasMethod(name) == name = "goto"

\* self.computer.get_environment() of the local-playwright computer
get_environment == "browser"

\* check_blocklisted_url raises
Blocklisted(url) == url = "blocked"

\* mutant: a rejected check does not raise
SafetyCheckNeverFails(item, acks) == FALSE

\* the acknowledgement loop raises: some pending check is not acknowledged
SafetyCheckFails(item, acks) == \E i \in 1..item.checks : ~acks[i]

\* the calls of acknowledge_safety_check_callback, up to the first rejection
AckEvents(item, acks) ==
    LET asked == { i \in 1..item.checks : \A j \in 1..(i - 1) : acks[j] }
    IN  [i \in 1..Cardinality(asked) |->
            Ev(IF acks[i] THEN "ack_yes" ELSE "ack_no", item.call_id)]

\* mutant: the acknowledgement callback is consulted before the action
DeviceEventsAckFirst(item, acks) ==
    AckEvents(item, acks)
    \o <<Ev("device", item.call_id), Ev("screenshot", item.call_id)>>

\* a computer_call: the action, the screenshot, then the acknowledgements
DeviceEvents(item, acks) ==
    <<Ev("device", item.call_id), Ev("screenshot", item.call_id)>>
    \o AckEvents(item, acks)

\* item types for which handle_item calls step_handler
Narrated == { "message", "function_call", "computer_call" }

\* mutant: message items are not narrated
StepEventsSkipsMessages(item) ==
    <<Ev("handle_item", item.call_id)>>
    \o (IF agent.print_steps /\ item.type \in Narrated \ { "message" }
        THEN <<Ev("step", item.call_id)>> ELSE <<>>)

\* handle_item is entered; step_handler is called when self.print_steps is set
StepEvents(item) ==
    <<Ev("handle_item", item.call_id)>>
    \o (IF agent.print_steps /\ item.type \in Narrated
        THEN <<Ev("step", item.call_id)>> ELSE <<>>)

TurnFails(error, evs) ==
    /\ outcome' = error
    /\ pc' = "idle"
    /\ new_items' = <<>>
    /\ pending' = <<>>
    /\ result' = <<>>
    /\ events' = events \o evs

\* create_response raises
AgentCreateResponseRaises ==
    /\ pc = "agent"
    /\ pending = <<>>
    /\ LoopContinues
    /\ TurnFails("EngineError", <<Ev("engine", agent.computer)>>)
    /\ engine_in' = AgentEngineIn
    /\ UNCHANGED <<provider_vars, call, loop_vars, voice_vars>>

\* the response has no "output" key; debug is False, so response["output"] raises
AgentCreateResponseNoOutput ==
    /\ pc = "agent"
    /\ pending = <<>>
    /\ LoopContinues
    /\ TurnFails("KeyError", <<Ev("engine", agent.computer)>>)
    /\ engine_in' = AgentEngineIn
    /\ UNCHANGED <<provider_vars, call, loop_vars, voice_vars>>

AgentCreateResponse(out) ==
    /\ pc = "agent"
    /\ pending = <<>>
    /\ LoopContinues
    /\ new_items' = new_items \o WithIds(out)
    /\ pending' = WithIds(out)
    /\ events' = events \o <<Ev("engine", agent.computer), Ev("response", Len(out))>>
    /\ engine_in' = AgentEngineIn
    /\ UNCHANGED <<provider_vars, call, pc, outcome, result, loop_vars, voice_vars>>

\* handle_item(item) for the next item of the response
AgentHandleItem ==
    /\ pc = "agent"
    /\ pending # <<>>
    /\ UNCHANGED <<variant, session, llm, agent, initial_turn, created,
                   release_calls, closed, navigations, call, engine_in, loop_vars,
                   voice_vars>>
    /\ LET item == Head(pending)
           id == item.call_id
           Continue(outs, evs, url) ==
               /\ new_items' = new_items \o outs
               /\ pending' = Tail(pending)
               /\ events' = events \o evs
               /\ current_url' = url
               /\ UNCHANGED <<pc, outcome, result>>
       IN  \E method_ok \in BOOLEAN, dest \in { "ok", "blocked" },
              acks \in [1..MaxChecks -> BOOLEAN] :
           CASE item.type = "message" ->
                /\ method_ok /\ dest = "ok" /\ \A i \in 1..MaxChecks : acks[i]
                /\ Continue(<<>>, StepEvents(item), current_url)
             [] item.type = "function_call" ->
                /\ \A i \in 1..MaxChecks : acks[i]
                /\ ~HasMethod(item.name) => (method_ok /\ dest = "ok")
                /\ ~method_ok => dest = "ok"
                /\ IF ~HasMethod(item.name)
                   THEN Continue(
                          <<Item("function_call_output", "", NoneContent, id, "", 0)>>,
                          StepEvents(item) \o <<Ev("call_output", id)>>,
                          current_url)
                   ELSE IF ~method_ok
                   THEN /\ TurnFails("EngineError",
                                     StepEvents(item) \o <<Ev("device", id)>>)
                        /\ UNCHANGED current_url
                   ELSE Continue(
                          <<Item("function_call_output", "", <<"success">>, id, "", 0)>>,
                          StepEvents(item) \o <<Ev("device", id), Ev("call_output", id)>>,
                          dest)
             [] item.type = "computer_call" ->
                /\ \A i \in (item.checks + 1)..MaxChecks : acks[i]
                /\ ~method_ok => (dest = "ok" /\ \A i \in 1..MaxChecks : acks[i])
                /\ LET done == StepEvents(item) \o DeviceEvents(item, acks)
                   IN  IF ~method_ok
                       THEN /\ TurnFails("EngineError",
                                         StepEvents(item) \o <<Ev("device", id)>>)
                            /\ UNCHANGED current_url
                       ELSE IF SafetyCheckFails(item, acks)
                       THEN /\ TurnFails("SafetyError", done)
                            /\ current_url' = dest
                       ELSE IF get_environment = "browser" /\ Blocklisted(dest)
                       THEN /\ TurnFails("BlocklistError",
                                         done \o <<Ev("url_check", id)>>)
                            /\ current_url' = dest
                       ELSE Continue(
                              <<Item("computer_call_output", "", <<>>, id, "", 0)>>,
                              done \o <<Ev("url_check", id), Ev("call_output", id)>>,
                              dest)
             [] OTHER ->
                /\ method_ok /\ dest = "ok" /\ \A i \in 1..MaxChecks : acks[i]
                /\ Continue(<<>>, StepEvents(item), current_url)

\* the while condition is false: return new_items
AgentReturn ==
    /\ pc = "agent"
    /\ pending = <<>>
    /\ ~LoopContinues
    /\ result' = new_items
    /\ outcome' = "returned"
    /\ pc' = "idle"
    /\ new_items' = <<>>
    /\ UNCHANGED <<provider_vars, call, pending, events, engine_in, loop_vars,
                   voice_vars>>

\* mutant: the finally clause that drops the computer handle is missing
CuaCloseKeepsComputer ==
    /\ variant = "cua"
    /\ pc = "idle"
    /\ call' = NewCall("close", <<>>)
    /\ engine_in' = NoEngineIn
    /\ closed' = TRUE
    /\ UNCHANGED <<variant, session, llm, initial_turn, created, navigations,
                   current_url, pc, new_items, pending, result>>
    /\ IF session # NoSession
       THEN \E exit_ok \in BOOLEAN :
            /\ release_calls' = Append(release_calls, session)
            /\ events' = <<Ev(IF exit_ok THEN "release" ELSE "release_raised", session)>>
            /\ agent' = IF exit_ok THEN NoAgent ELSE agent
            /\ outcome' = IF exit_ok THEN "closed" ELSE "CloseError"
       ELSE /\ events' = <<>>
            /\ agent' = NoAgent
            /\ outcome' = "closed"
            /\ UNCHANGED release_calls

CuaClose ==
    /\ variant = "cua"
    /\ pc = "idle"
    /\ call' = NewCall("close", <<>>)
    /\ engine_in' = NoEngineIn
    /\ closed' = TRUE
    /\ UNCHANGED <<variant, llm, initial_turn, created, navigations,
                   current_url, pc, new_items, pending, result>>
    /\ IF session # NoSession
       THEN \E exit_ok \in BOOLEAN :
            /\ release_calls' = Append(release_calls, session)
            /\ events' = <<Ev(IF exit_ok THEN "release" ELSE "release_raised", session)>>
            /\ session' = NoSession
            /\ agent' = IF exit_ok THEN NoAgent ELSE agent
            /\ outcome' = IF exit_ok THEN "closed" ELSE "CloseError"
       ELSE /\ events' = <<>>
            /\ agent' = NoAgent
            /\ outcome' = "closed"
            /\ UNCHANGED <<session, release_calls>>

\* ------------------------------------------------ an arbitrary caller
run_full_turn(items, url, h) ==
    \/ BrowserRunFullTurn(items, url, h)
    \/ CuaRunFullTurn(items, url, h)

close == BrowserClose \/ CuaClose

AgentStep ==
    \/ AgentCreateResponseRaises
    \/ AgentCreateResponseNoOutput
    \/ \E out \in Responses : AgentCreateResponse(out)
    \/ AgentHandleItem
    \/ AgentReturn

CallerRunFullTurn ==
    /\ loop_pc = "off"
    /\ \E items \in ItemsSet, url \in StartUrls, h \in Handlers :
          run_full_turn(items, url, h)
    /\ UNCHANGED <<loop_vars, voice_vars>>

CallerClose ==
    /\ loop_pc = "off"
    /\ close
    /\ UNCHANGED <<loop_vars, voice_vars>>

Next ==
    \/ CallerRunFullTurn
    \/ CallerClose
    \/ AgentStep

Spec == Init /\ [][Next]_vars

\* --------------------------------- a caller that passes a history
\* the conversations such a caller may hold before the current message
Histories == UNION { [1..n -> CallerItems] : n \in 0..(MaxHistory - 1) }

HistoryInit ==
    /\ ProviderInit
    /\ variant = "browser"
    /\ loop_pc = "off"
    /\ debug = FALSE
    /\ voice = FALSE
    /\ start_url = ""
    /\ conversation_history \in Histories
    /\ user_input = <<>>
    /\ turns = 0
    /\ VoiceOff

\* the caller passes its history followed by the current user message
HistoryRunFullTurn ==
    /\ loop_pc = "off"
    /\ \E c \in Contents, url \in StartUrls, h \in Handlers :
          BrowserRunFullTurn(conversation_history \o <<UserItem(c)>>, url, h)
    /\ UNCHANGED <<loop_vars, voice_vars>>

HistoryNext == HistoryRunFullTurn

HistorySpec == HistoryInit /\ [][HistoryNext]_vars

\* ------------------------------------------------- interactive_loop
EXIT == <<"e", "x", "i", "t">>

RawInputs == { <<>>, <<SP, "a", SP>>, EXIT, <<"E", "x", "i", "t", SP>> }

\* str.lower()
lower(s) ==
    [i \in DOMAIN s |->
        CASE s[i] = "E" -> "e" [] s[i] = "X" -> "x"
          [] s[i] = "I" -> "i" [] s[i] = "T" -> "t" [] OTHER -> s[i]]

\* build_step_handler: the handler the loop passes to the provider
LoopStepHandler == IF voice THEN "_handler" ELSE "plain_handler"

LoopInit ==
    /\ ProviderInit
    /\ loop_pc = "input"
    /\ debug \in BOOLEAN
    /\ voice \in BOOLEAN
    /\ start_url \in StartUrls
    /\ conversation_history = <<>>
    /\ user_input = <<>>
    /\ turns = 0
    /\ VoiceOff

\* mutant: the test for empty input is missing
LoopReadInputNoBlankTest ==
    /\ loop_pc = "input"
    /\ \E raw \in RawInputs :
       /\ user_input' = strip(raw)
       /\ IF lower(user_input') = EXIT
          THEN /\ loop_pc' = "cleanup"
               /\ UNCHANGED <<provider_vars, turn_vars, turns>>
          ELSE /\ turns < MaxTurns
               /\ turns' = turns + 1
               /\ loop_pc' = "awaiting"
               /\ run_full_turn(conversation_history \o <<UserItem(user_input')>>,
                                start_url, LoopStepHandler)
    /\ UNCHANGED <<debug, voice, start_url, conversation_history, voice_vars>>

\* one pass of the while loop up to the await of run_full_turn
LoopReadInput ==
    /\ loop_pc = "input"
    /\ \E raw \in RawInputs :
       /\ user_input' = strip(raw)
       /\ IF user_input' = <<>>
          THEN /\ loop_pc' = "input"
               /\ UNCHANGED <<provider_vars, turn_vars, turns>>
          ELSE IF lower(user_input') = EXIT
          THEN /\ loop_pc' = "cleanup"
               /\ UNCHANGED <<provider_vars, turn_vars, turns>>
          ELSE /\ turns < MaxTurns
               /\ turns' = turns + 1
               /\ loop_pc' = "awaiting"
               /\ run_full_turn(conversation_history \o <<UserItem(user_input')>>,
                                start_url, LoopStepHandler)
    /\ UNCHANGED <<debug, voice, start_url, conversation_history, voice_vars>>

\* EOFError / KeyboardInterrupt while reading the input
LoopInterrupted ==
    /\ loop_pc = "input"
    /\ loop_pc' = "cleanup"
    /\ UNCHANGED <<provider_vars, turn_vars, debug, voice, start_url,
                   conversation_history, user_input, turns, voice_vars>>

\* what voice_io.push_to_talk raises: sounddevice or pynput missing, or the
\* wav could not be written, or the STT provider's transcribe raised
PushToTalkErrors == { "RuntimeError", "ImportError", "WriteError", "SttError" }

\* voice mode: push_to_talk raises something that is neither EOFError nor
\* KeyboardInterrupt; no except clause of interactive_loop matches it
LoopPushToTalkRaises ==
    /\ loop_pc = "input"
    /\ voice
    /\ \E err \in PushToTalkErrors : loop_pc' = "input_raised"
    /\ UNCHANGED <<provider_vars, turn_vars, debug, voice, start_url,
                   conversation_history, user_input, turns, voice_vars>>

\* result_items[-1]["content"] is a str, or a list holding a text
Readable(items) == items # <<>> /\ Last(items).content # NoneContent

\* mutant: the result is put in front of the history
LoopTurnReturnedPrepends ==
    /\ loop_pc = "awaiting"
    /\ pc = "idle"
    /\ outcome = "returned"
    /\ Readable(result)
    /\ conversation_history' =
          <<UserItem(user_input)>> \o result \o conversation_history
    /\ loop_pc' = "input"
    /\ UNCHANGED <<provider_vars, turn_vars, debug, voice, start_url, user_input, turns,
                   voice_vars>>

\* run_full_turn returned and the result is narrated: extend the history
LoopTurnReturned ==
    /\ loop_pc = "awaiting"
    /\ pc = "idle"
    /\ outcome = "returned"
    /\ Readable(result)
    /\ conversation_history' =
          conversation_history \o <<UserItem(user_input)>> \o result
    /\ loop_pc' = "input"
    /\ UNCHANGED <<provider_vars, turn_vars, debug, voice, start_url, user_input, turns,
                   voice_vars>>

\* mutant: the except branch re-raises whatever the flag says
LoopTurnFailedAlwaysRaises ==
    /\ loop_pc = "awaiting"
    /\ pc = "idle"
    /\ ~(outcome = "returned" /\ Readable(result))
    /\ loop_pc' = "crashed"
    /\ UNCHANGED <<provider_vars, turn_vars, debug, voice, start_url,
                   conversation_history, user_input, turns, voice_vars>>

\* mutant: the user message is appended before the turn is known to succeed
LoopTurnFailedKeepsUser ==
    /\ loop_pc = "awaiting"
    /\ pc = "idle"
    /\ ~(outcome = "returned" /\ Readable(result))
    /\ loop_pc' = IF debug THEN "crashed" ELSE "input"
    /\ conversation_history' = Append(conversation_history, UserItem(user_input))
    /\ UNCHANGED <<provider_vars, turn_vars, debug, voice, start_url, user_input, turns,
                   voice_vars>>

\* the except branch: report, and re-raise under --debug
LoopTurnFailed ==
    /\ loop_pc = "awaiting"
    /\ pc = "idle"
    /\ ~(outcome = "returned" /\ Readable(result))
    /\ loop_pc' = IF debug THEN "crashed" ELSE "input"
    /\ UNCHANGED <<provider_vars, turn_vars, debug, voice, start_url,
                   conversation_history, user_input, turns, voice_vars>>

\* after the loop: await agent_provider.close()
LoopCleanup ==
    /\ loop_pc = "cleanup"
    /\ close
    /\ loop_pc' = IF outcome' = "CloseError" /\ debug THEN "crashed" ELSE "done"
    /\ UNCHANGED <<debug, voice, start_url, conversation_history, user_input, turns,
                   voice_vars>>

LoopNext ==
    \/ LoopReadInput
    \/ LoopInterrupted
    \/ LoopPushToTalkRaises
    \/ LoopTurnReturned
    \/ LoopTurnFailed
    \/ LoopCleanup
    \/ AgentStep

LoopSpec == LoopInit /\ [][LoopNext]_vars

\* ------------------------------------------------- Agent called directly
\* a caller holding an entered computer constructs Agent(computer=...)
AgentInit ==
    /\ variant = "cua"
    /\ session = 1
    /\ llm = FALSE
    /\ agent = [set |-> TRUE, computer |-> 1, step_handler |-> "plain_handler",
                print_steps |-> TRUE]
    /\ initial_turn = TRUE
    /\ created = 1
    /\ release_calls = <<>>
    /\ closed = FALSE
    /\ navigations = 0
    /\ current_url = "ok"
    /\ pc = "idle"
    /\ new_items = <<>>
    /\ pending = <<>>
    /\ call = NoCall
    /\ outcome = "none"
    /\ result = <<>>
    /\ events = <<>>
    /\ engine_in = NoEngineIn
    /\ loop_pc = "off"
    /\ debug = FALSE
    /\ voice = FALSE
    /\ start_url = ""
    /\ conversation_history = <<>>
    /\ user_input = <<>>
    /\ turns = 0
    /\ VoiceOff

\* Agent.run_full_turn(input_items, print_steps) up to the while loop
AgentRunFullTurn ==
    /\ pc = "idle"
    /\ \E items \in ItemsSet, ps \in BOOLEAN :
          /\ call' = NewCall("Agent.run_full_turn", items)
          /\ agent' = [agent EXCEPT !.print_steps = ps]
    /\ pc' = "agent"
    /\ outcome' = "running"
    /\ new_items' = <<>>
    /\ pending' = <<>>
    /\ result' = <<>>
    /\ events' = <<>>
    /\ engine_in' = NoEngineIn
    /\ UNCHANGED <<variant, session, llm, initial_turn, created, release_calls,
                   closed, navigations, current_url, loop_vars, voice_vars>>

AgentNext ==
    \/ AgentRunFullTurn
    \/ AgentStep

AgentSpec == AgentInit /\ [][AgentNext]_vars

\* ------------------------------------------------------------ VoiceIO
agent_side == <<provider_vars, turn_vars, loop_vars>>

VoiceInit ==
    /\ ProviderInit
    /\ loop_pc = "off"
    /\ debug = FALSE
    /\ voice = TRUE
    /\ start_url = ""
    /\ conversation_history = <<>>
    /\ user_input = <<>>
    /\ turns = 0
    /\ variant = "browser"
    /\ platform \in Platforms
    /\ kb \in BOOLEAN
    /\ player_installed \in BOOLEAN
    /\ playsound \in BOOLEAN
    /\ stt_provider = "openai"
    /\ files \in { {}, { CachedPath(Summary) } }
    /\ warm = { t \in NonBlank : CachedPath(t) \in files }
    /\ VoiceIdle

\* ---- play_audio
\* _spawn_player(): a Popen handle ("proc"), None ("none"), or Popen raises
\* because the binary it names does not exist ("raises")
SpawnPlayer ==
    CASE platform = "darwin" -> IF player_installed THEN "proc" ELSE "raises"
      [] platform = "linux" -> IF player_installed THEN "proc" ELSE "none"
      [] OTHER -> "none"

\* the blocking fallback: playsound, then the platform's command
BlockingFallback(playsound_ok) ==
    IF playsound /\ playsound_ok
    THEN [log |-> <<"playsound">>, outcome |-> "fallback"]
    ELSE CASE platform = "darwin" ->
                IF player_installed
                THEN [log |-> <<"playsound_failed", "command">>, outcome |-> "fallback"]
                ELSE [log |-> <<"playsound_failed", "command_failed">>,
                      outcome |-> "failed"]
           [] platform = "linux" ->
                IF player_installed
                THEN [log |-> <<"playsound_failed", "command">>, outcome |-> "fallback"]
                ELSE [log |-> <<"playsound_failed", "no_player">>, outcome |-> "failed"]
           [] OTHER -> [log |-> <<"playsound_failed">>, outcome |-> "failed"]

\* a play_audio call starts
EnterPlay(file, ret) ==
    /\ vpc' = "play"
    /\ play_file' = file
    /\ play_ret' = ret
    /\ play_outcome' = "none"
    /\ play_log' = <<>>
    /\ player_proc' = "none"
    /\ interrupted' = FALSE
    /\ play_listener' = FALSE

\* a play_audio call is over: return, or raise, to where it was called from
PlayOver(outc) ==
    /\ play_outcome' = outc
    /\ vpc' = play_ret
    /\ voutcome' = IF play_ret = "idle"
                   THEN (IF outc = "failed" THEN "PlayError" ELSE "returned")
                   ELSE voutcome

\* play_audio up to player_proc.wait(), or to its end
PlayAudio ==
    /\ vpc = "play"
    /\ UNCHANGED interrupted
    /\ \E playsound_ok \in BOOLEAN :
       LET sp == IF kb THEN SpawnPlayer ELSE "none"
           fb == BlockingFallback(playsound_ok)
       IN  /\ (~playsound \/ sp # "none") => playsound_ok
           /\ CASE sp = "proc" ->
                   /\ player_proc' = "running"
                   /\ play_listener' = TRUE
                   /\ play_log' = <<"spawn">>
                   /\ vpc' = "play_wait"
                   /\ UNCHANGED <<play_outcome, voutcome>>
                [] sp = "raises" ->
                   /\ player_proc' = "none"
                   /\ play_listener' = FALSE
                   /\ play_log' = <<"spawn_raised">>
                   /\ PlayOver("failed")
                [] OTHER ->
                   /\ player_proc' = "none"
                   /\ play_listener' = FALSE
                   /\ play_log' = fb.log
                   /\ PlayOver(fb.outcome)
    /\ UNCHANGED <<agent_side, env_vars, ack_cue, vcall, play_file, play_ret, speak_vars,
                   ptt_vars, space_down>>

\* the player process ends by itself
PlayerExits ==
    /\ player_proc = "running"
    /\ player_proc' = "exited"
    /\ UNCHANGED <<agent_side, env_vars, ack_cue, vpc, vcall, voutcome, play_file, play_ret,
                   interrupted, play_listener, play_outcome, play_log, speak_vars,
                   ptt_vars, space_down>>

\* mutant: the return after listener.stop() is missing
PlayReturnFallsThrough ==
    /\ vpc = "play_wait"
    /\ player_proc \in { "exited", "terminated" }
    /\ play_listener' = FALSE
    /\ \E playsound_ok \in BOOLEAN :
          /\ ~playsound => playsound_ok
          /\ play_log' = play_log \o BlockingFallback(playsound_ok).log
          /\ PlayOver(BlockingFallback(playsound_ok).outcome)
    /\ UNCHANGED <<agent_side, env_vars, ack_cue, vcall, play_file, play_ret, player_proc,
                   interrupted, speak_vars, ptt_vars, space_down>>

\* player_proc.wait() returned: listener.stop() and return
PlayReturn ==
    /\ vpc = "play_wait"
    /\ player_proc \in { "exited", "terminated" }
    /\ play_listener' = FALSE
    /\ PlayOver(IF interrupted THEN "interrupted" ELSE "completed")
    /\ UNCHANGED <<agent_side, env_vars, ack_cue, vcall, play_file, play_ret, player_proc,
                   interrupted, play_log, speak_vars, ptt_vars, space_down>>

CallerPlayAudio ==
    /\ vpc = "idle"
    /\ \E file \in { Beep, Clip } :
          /\ vcall' = VoiceCall("play_audio", file.name, FALSE)
          /\ EnterPlay(file, "idle")
    /\ voutcome' = "running"
    /\ GestureForgotten
    /\ UNCHANGED <<agent_side, env_vars, ack_cue, speak_vars, space_down>>

\* ---- speak
\* mutant: the cache is never consulted
CacheHitNever(text) == FALSE

\* os.path.exists(cached_path)
CacheHit(text) == CachedPath(text) \in files

Inc(f, t) == [f EXCEPT ![t] = @ + 1]

\* speak(text, cache=cache) up to its play_audio call
CallerSpeak ==
    /\ vpc = "idle"
    /\ \E text \in SpeakTexts, cache \in BOOLEAN,
          syn \in { "ok", "raises", "raises_partial" } :
       LET path == IF cache THEN CachedPath(text) ELSE TempPath
           hit == cache /\ CacheHit(text)
       IN  /\ vcall' = VoiceCall("speak", text, cache)
           /\ (strip(text) = <<>> \/ hit) => syn = "ok"
           /\ (cache /\ strip(text) # <<>>) => speaks < MaxSpeaks
           /\ IF strip(text) = <<>>
              THEN /\ voutcome' = "returned"
                   /\ PlayForgotten
                   /\ UNCHANGED <<vpc, speak_vars>>
              ELSE IF hit
              THEN /\ EnterPlay(path, "speak_end")
                   /\ voutcome' = "running"
                   /\ audio_path' = NoFile
                   /\ speaks' = speaks + 1
                   /\ cache_plays' = Inc(cache_plays, text)
                   /\ UNCHANGED <<files, warm, synth_raised, synth_calls, speak_calls>>
              ELSE /\ speaks' = IF cache THEN speaks + 1 ELSE speaks
                   /\ synth_calls' = IF cache THEN Inc(synth_calls, text) ELSE synth_calls
                   /\ files' = IF syn = "raises" THEN files ELSE files \cup { path }
                   /\ UNCHANGED warm
                   /\ IF syn = "ok"
                      THEN /\ EnterPlay(path, "speak_end")
                           /\ voutcome' = "running"
                           /\ audio_path' = path
                           /\ cache_plays' =
                                 IF cache THEN Inc(cache_plays, text) ELSE cache_plays
                           /\ UNCHANGED <<synth_raised, speak_calls>>
                      ELSE /\ voutcome' = "SynthError"
                           /\ synth_raised' =
                                 IF cache THEN synth_raised \cup { text } ELSE synth_raised
                           /\ speak_calls' =
                                 IF cache THEN Inc(speak_calls, text) ELSE speak_calls
                           /\ PlayForgotten
                           /\ UNCHANGED <<vpc, audio_path, cache_plays>>
    /\ GestureForgotten
    /\ UNCHANGED <<agent_side, env_vars, ack_cue, space_down>>

\* mutant: the finally clause removes the file whether or not it is cached
SpeakEndDeletesAlways ==
    /\ vpc = "speak_end"
    /\ vpc' = "idle"
    /\ voutcome' = IF play_outcome = "failed" THEN "PlayError" ELSE "returned"
    /\ files' = IF audio_path # NoFile /\ audio_path \in files
                THEN files \ { audio_path } ELSE files
    /\ audio_path' = NoFile
    /\ speak_calls' = IF vcall.cache THEN Inc(speak_calls, vcall.text) ELSE speak_calls
    /\ PlayForgotten
    /\ UNCHANGED <<agent_side, env_vars, ack_cue, vcall, speaks, warm, synth_raised,
                   synth_calls, cache_plays, ptt_vars, space_down>>

\* after play_audio: the finally clause, then return or re-raise
SpeakEnd ==
    /\ vpc = "speak_end"
    /\ vpc' = "idle"
    /\ voutcome' = IF play_outcome = "failed" THEN "PlayError" ELSE "returned"
    /\ files' = IF audio_path # NoFile /\ audio_path \in files
                   /\ (~vcall.cache \/ audio_path # CachedPath(vcall.text))
                THEN files \ { audio_path } ELSE files
    /\ audio_path' = NoFile
    /\ speak_calls' = IF vcall.cache THEN Inc(speak_calls, vcall.text) ELSE speak_calls
    /\ PlayForgotten
    /\ UNCHANGED <<agent_side, env_vars, ack_cue, vcall, speaks, warm, synth_raised,
                   synth_calls, cache_plays, ptt_vars, space_down>>

\* ---- push_to_talk
\* push_to_talk up to wait_listener.join()
CallerPushToTalk ==
    /\ vpc = "idle"
    /\ vcall' = VoiceCall("push_to_talk", <<>>, FALSE)
    /\ pressed_evt' = FALSE
    /\ released_evt' = FALSE
    /\ cancel_evt' = FALSE
    /\ release_listener' = FALSE
    /\ stream_open' = FALSE
    /\ audio_queue' = <<>>
    /\ enqueued' = <<>>
    /\ esc_at' = {}
    /\ stt_calls' = 0
    /\ wav_written' = 0
    /\ audio_data' = <<>>
    /\ stt_in' = NoSttInput
    /\ wav_exists' = FALSE
    /\ ptt_result' = <<>>
    /\ IF kb
       THEN /\ vpc' = "ptt_wait_press"
            /\ wait_listener' = TRUE
            /\ voutcome' = "running"
       ELSE /\ vpc' = "idle"
            /\ wait_listener' = FALSE
            /\ voutcome' = "ImportError"
    /\ PlayForgotten
    /\ UNCHANGED <<agent_side, env_vars, ack_cue, speak_vars, space_down>>

\* wait_listener.join() returned: cancelled, or the start beep
PttPressObserved ==
    /\ vpc = "ptt_wait_press"
    /\ ~wait_listener
    /\ IF cancel_evt \/ ~pressed_evt
       THEN /\ vpc' = "idle"
            /\ voutcome' = "returned"
            /\ ptt_result' = <<>>
            /\ UNCHANGED play_vars
       ELSE /\ EnterPlay(Beep, "ptt_open")
            /\ UNCHANGED <<voutcome, ptt_result>>
    /\ UNCHANGED <<agent_side, env_vars, ack_cue, vcall, speak_vars, pressed_evt, released_evt,
                   cancel_evt, wait_listener, release_listener, stream_open,
                   audio_queue, enqueued, esc_at, stt_calls, wav_written, wav_vars,
                   space_down>>

\* the start beep is over (its failure is swallowed): release_listener.start()
\* and the input stream is opened
PttOpen ==
    /\ vpc = "ptt_open"
    /\ vpc' = "ptt_recording"
    /\ release_listener' = TRUE
    /\ stream_open' = TRUE
    /\ PlayForgotten
    /\ UNCHANGED <<agent_side, env_vars, ack_cue, vcall, voutcome, speak_vars,
                   pressed_evt, released_evt, cancel_evt, wait_listener, audio_queue,
                   enqueued, esc_at, stt_calls, wav_written, wav_vars, ptt_result,
                   space_down>>

\* the polling loop ends, the stream is closed, release_listener.join(), end beep
PttStop ==
    /\ vpc = "ptt_recording"
    /\ released_evt \/ cancel_evt
    /\ ~release_listener
    /\ stream_open' = FALSE
    /\ EnterPlay(Beep, "ptt_aggregate")
    /\ UNCHANGED <<agent_side, env_vars, ack_cue, vcall, voutcome, speak_vars, pressed_evt,
                   released_evt, cancel_evt, wait_listener, release_listener,
                   audio_queue, enqueued, esc_at, stt_calls, wav_written, wav_vars,
                   ptt_result, space_down>>

\* indata.copy(): the n-th block the stream delivered, one sample long
Frame(n) == <<n>>

\* mutant: the empty-queue test is missing
AudioQueueEmptyNever == FALSE

\* audio_queue.empty()
AudioQueueEmpty == audio_queue = <<>>

\* mutant: the frames are taken from the newest end of the queue
RECURSIVE DrainNewestFirst(_)
DrainNewestFirst(q) ==
    IF q = <<>> THEN <<>>
    ELSE <<q[Len(q)]>> \o DrainNewestFirst(SubSeq(q, 1, Len(q) - 1))

\* while not audio_queue.empty(): frames.append(audio_queue.get())
RECURSIVE Drain(_)
Drain(q) ==
    IF q = <<>> THEN <<>>
    ELSE <<Head(q)>> \o Drain(Tail(q))

\* np.concatenate(frames, axis=0)
RECURSIVE Concatenate(_)
Concatenate(frames) ==
    IF frames = <<>> THEN <<>>
    ELSE Head(frames) \o Concatenate(Tail(frames))

Raised == [raised |-> TRUE, text |-> <<>>]
Returned(text) == [raised |-> FALSE, text |-> text]

\* OpenAIProvider.transcribe: open the wav, call the API, strip the text
OpenAITranscribe(in) ==
    CASE in = "unreadable" -> Raised
      [] in = "fails" -> Raised
      [] in = "no_speech" -> Returned(strip(<<>>))
      [] OTHER -> Returned(strip(RawTranscript))

\* SystemSTTProvider.transcribe: read the wav, then recognize_sphinx with
\* every exception of it turned into ""
SystemTranscribe(in) ==
    CASE in = "unreadable" -> Raised
      [] in = "text" -> Returned(RawTranscript)
      [] OTHER -> Returned(<<>>)

\* self.stt_provider.transcribe(wav_path)
transcribe(in) ==
    IF stt_provider = "openai" THEN OpenAITranscribe(in) ELSE SystemTranscribe(in)

\* the end beep is over: aggregate the frames, write the wav, transcribe
PttAggregate ==
    /\ vpc = "ptt_aggregate"
    /\ vpc' = "idle"
    /\ IF AudioQueueEmpty
       THEN /\ voutcome' = "returned"
            /\ ptt_result' = <<>>
            /\ UNCHANGED <<audio_queue, stt_calls, wav_written, wav_vars>>
       ELSE /\ audio_data' = Concatenate(Drain(audio_queue))
            /\ audio_queue' = <<>>
            /\ wav_written' = wav_written + 1
            /\ \/ /\ voutcome' = "WriteError"
                  /\ ptt_result' = <<>>
                  /\ wav_exists' = TRUE
                  /\ UNCHANGED <<stt_calls, stt_in>>
               \/ \E in \in SttInputs :
                  /\ stt_calls' = stt_calls + 1
                  /\ stt_in' = in
                  /\ wav_exists' = FALSE
                  /\ IF transcribe(in).raised
                     THEN voutcome' = "SttError" /\ ptt_result' = <<>>
                     ELSE voutcome' = "returned" /\ ptt_result' = transcribe(in).text
    /\ PlayForgotten
    /\ UNCHANGED <<agent_side, env_vars, ack_cue, vcall, speak_vars, pressed_evt,
                   released_evt, cancel_evt, wait_listener, release_listener,
                   stream_open, enqueued, esc_at, space_down>>

\* ---- the keyboard, the microphone
\* the phase of the gesture in which a key event arrives
Phase ==
    IF vcall.op = "push_to_talk" /\ vpc = "ptt_wait_press" /\ wait_listener
    THEN { "before_press" }
    ELSE IF vcall.op = "push_to_talk" /\ vpc = "ptt_recording" /\ ~released_evt
    THEN { "recording" }
    ELSE {}

\* mutant: the player process is left running
PressEscNoTerminate ==
    /\ esc_at' = esc_at \cup Phase
    /\ IF wait_listener
       THEN /\ cancel_evt' = TRUE
            /\ wait_listener' = FALSE
            /\ UNCHANGED <<interrupted, player_proc, play_listener, play_log, ack_cue>>
       ELSE IF play_listener
       THEN /\ interrupted' = TRUE
            /\ play_log' = play_log \o <<"ack_beep">>
            /\ ack_cue' = "playing"
            /\ play_listener' = FALSE
            /\ UNCHANGED <<cancel_evt, wait_listener, player_proc>>
       ELSE UNCHANGED <<cancel_evt, wait_listener, interrupted, player_proc,
                        play_listener, play_log, ack_cue>>
    /\ UNCHANGED <<agent_side, env_vars, vpc, vcall, voutcome, play_file, play_ret,
                   play_outcome, speak_vars, pressed_evt, released_evt,
                   release_listener, stream_open, audio_queue, enqueued, stt_calls,
                   wav_written, wav_vars, ptt_result, space_down>>

\* Escape goes down: _on_press of whichever listener is running
PressEsc ==
    /\ esc_at' = esc_at \cup Phase
    /\ IF wait_listener
       THEN /\ cancel_evt' = TRUE
            /\ wait_listener' = FALSE
            /\ UNCHANGED <<interrupted, player_proc, play_listener, play_log, ack_cue>>
       ELSE IF play_listener
       THEN /\ interrupted' = TRUE
            /\ player_proc' = IF player_proc = "running" THEN "terminated"
                              ELSE player_proc
            /\ play_log' = play_log \o <<"ack_beep">>
            /\ ack_cue' = "playing"
            /\ play_listener' = FALSE
            /\ UNCHANGED <<cancel_evt, wait_listener>>
       ELSE UNCHANGED <<cancel_evt, wait_listener, interrupted, player_proc,
                        play_listener, play_log, ack_cue>>
    /\ UNCHANGED <<agent_side, env_vars, vpc, vcall, voutcome, play_file, play_ret,
                   play_outcome, speak_vars, pressed_evt, released_evt,
                   release_listener, stream_open, audio_queue, enqueued, stt_calls,
                   wav_written, wav_vars, ptt_result, space_down>>

\* the player process of the acknowledgement beep ends; the listener thread
\* that waited for it is over (an Escape during the beep starts another one)
AckCueEnds ==
    /\ ack_cue = "playing"
    /\ ack_cue' = "none"
    /\ UNCHANGED <<agent_side, env_vars, vpc, vcall, voutcome, play_vars, speak_vars,
                   ptt_vars, space_down>>

\* the space bar goes down
PressSpace ==
    /\ ~space_down
    /\ space_down' = TRUE
    /\ IF wait_listener
       THEN pressed_evt' = TRUE /\ wait_listener' = FALSE
       ELSE UNCHANGED <<pressed_evt, wait_listener>>
    /\ UNCHANGED <<agent_side, env_vars, ack_cue, vpc, vcall, voutcome, play_vars, speak_vars,
                   released_evt, cancel_evt, release_listener, stream_open,
                   audio_queue, enqueued, esc_at, stt_calls, wav_written, wav_vars,
                   ptt_result>>

\* the space bar goes up
ReleaseSpace ==
    /\ space_down
    /\ space_down' = FALSE
    /\ IF release_listener
       THEN released_evt' = TRUE /\ release_listener' = FALSE
       ELSE UNCHANGED <<released_evt, release_listener>>
    /\ UNCHANGED <<agent_side, env_vars, ack_cue, vpc, vcall, voutcome, play_vars, speak_vars,
                   pressed_evt, cancel_evt, wait_listener, stream_open, audio_queue,
                   enqueued, esc_at, stt_calls, wav_written, wav_vars, ptt_result>>

\* _audio_cb(indata): a block with samples is put into the queue
AudioCallback ==
    /\ stream_open
    /\ Len(enqueued) < MaxFrames
    /\ \E size \in { 0, 1 } :
          IF size # 0
          THEN /\ audio_queue' = Append(audio_queue, Frame(Len(enqueued) + 1))
               /\ enqueued' = Append(enqueued, Frame(Len(enqueued) + 1))
          ELSE UNCHANGED <<audio_queue, enqueued>>
    /\ UNCHANGED <<agent_side, env_vars, ack_cue, vpc, vcall, voutcome, play_vars, speak_vars,
                   pressed_evt, released_evt, cancel_evt, wait_listener,
                   release_listener, stream_open, esc_at, stt_calls, wav_written,
                   wav_vars, ptt_result, space_down>>

\* the steps of the thread that called into VoiceIO
VoiceThread ==
    \/ PlayAudio
    \/ PlayReturn
    \/ SpeakEnd
    \/ PttPressObserved
    \/ PttOpen
    \/ PttStop
    \/ PttAggregate

VoiceNext ==
    \/ CallerPlayAudio
    \/ CallerSpeak
    \/ CallerPushToTalk
    \/ VoiceThread
    \/ PlayerExits
    \/ AckCueEnds
    \/ PressEsc
    \/ PressSpace
    \/ ReleaseSpace
    \/ AudioCallback

VoiceSpec == VoiceInit /\ [][VoiceNext]_vars

\* the calling thread keeps running while it has a step to take
VoiceFairSpec == VoiceSpec /\ WF_vars(VoiceThread)

\* ---- push_to_talk gestures alone, under either STT provider
GestureInit ==
    /\ ProviderInit
    /\ loop_pc = "off"
    /\ debug = FALSE
    /\ voice = TRUE
    /\ start_url = ""
    /\ conversation_history = <<>>
    /\ user_input = <<>>
    /\ turns = 0
    /\ variant = "browser"
    /\ platform \in Platforms
    /\ kb \in BOOLEAN
    /\ player_installed \in BOOLEAN
    /\ playsound \in BOOLEAN
    /\ stt_provider \in STTProviders
    /\ files = {}
    /\ warm = {}
    /\ VoiceIdle

GestureNext ==
    \/ CallerPushToTalk
    \/ PttPressObserved
    \/ PttOpen
    \/ PttStop
    \/ PttAggregate
    \/ PlayAudio
    \/ PlayReturn
    \/ PlayerExits
    \/ AckCueEnds
    \/ PressEsc
    \/ PressSpace
    \/ ReleaseSpace
    \/ AudioCallback

GestureSpec == GestureInit /\ [][GestureNext]_vars

\* ------------------------------------------------------------ claims
\* the run_full_turn precondition, as the specification words it
ValidInput(items) ==
    /\ items # <<>>
    /\ Last(items).role = "user"
    /\ strip(Last(items).content) # <<>>

\* sessions created by the instance on which no release has been called yet
Live == { s \in 1..created : ReleaseCount(s) = 0 }

\* C1: under both provider variants, a run_full_turn call whose items list is
\* non-empty and ends in an item whose role is not user ends with the
\* invalid-input error, and nothing of the automation ran in that call: no
\* session was created, nothing was navigated, the engine was not invoked.
C1_NonUserLastRejected ==
    (call.op = "run_full_turn" /\ call.items # <<>> /\ Last(call.items).role # "user")
        => (outcome = "InvalidInput" /\ pc = "idle" /\ events = <<>> /\ result = <<>>)

\* the rejected call was made on a desktop provider that holds a session
C1_Witness ==
    /\ variant = "cua"
    /\ session # NoSession
    /\ call.op = "run_full_turn"
    /\ call.items # <<>>
    /\ Last(call.items).role # "user"
    /\ outcome = "InvalidInput"

\* C2: under both provider variants, a run_full_turn call whose items list is
\* empty, or ends in a user item with empty or whitespace-only content, ends
\* with the invalid-input error, and in that call no session was created and
\* the engine was not invoked.
C2_BlankOrEmptyRejected ==
    (/\ call.op = "run_full_turn"
     /\ \/ call.items = <<>>
        \/ /\ Last(call.items).role = "user"
           /\ strip(Last(call.items).content) = <<>>)
        => (outcome = "InvalidInput" /\ pc = "idle" /\ events = <<>>)

\* C3: over the lifetime of one provider instance, whatever run_full_turn and
\* close calls are made, start_url is navigated to at most once.
C3_NavigatesOnce == navigations <= 1

\* C4: at every moment at most one session created by the instance is live
\* (created, and its release operation not yet called), that session is the
\* one the instance holds, and so a session is created only while the
\* instance holds none; failed creations, engine failures and raising
\* releases included.
C4_AtMostOneLiveSession ==
    /\ Cardinality(Live) <= 1
    /\ Live \subseteq { session }
    /\ session # NoSession => session \in Live

\* a second session is live after the first one was released
C4_Witness ==
    /\ created = 2
    /\ session = 2
    /\ Live = { 2 }
    /\ ReleaseCount(1) = 1

\* C5: right after a close() call, that call has not raised, and a second
\* close() cannot raise and cannot change what the provider holds.
C5_CloseTwice ==
    call.op = "close"
        => /\ outcome = "closed"
           /\ ~ENABLED (close /\ (outcome' # "closed" \/ ProviderState' # ProviderState))

\* C6: close() never raises to its caller, under both variants, also when the
\* release of the session raises.
C6_CloseNeverRaises == call.op = "close" => outcome \in { "closed" }

\* C7 as claimed: once close() has been called, a later run_full_turn with
\* valid input creates no session and runs no turn.
C7_UnusableAfterClose ==
    (closed /\ call.op = "run_full_turn" /\ ValidInput(call.items))
        => (~HasEvent("create") /\ ~HasEvent("engine") /\ pc = "idle")

\* C7 as amended: close() leaves the provider holding no session, and the
\* provider stays usable: a later run_full_turn with valid input that gets
\* past session creation and navigation holds a session on which no release
\* was ever called, and runs the engine.
C7_ReusableAfterClose ==
    /\ call.op = "close" => session = NoSession
    /\ (/\ closed
        /\ call.op = "run_full_turn"
        /\ ValidInput(call.items)
        /\ outcome \notin { "LlmError", "CreateError", "NavigationError" })
          => /\ session # NoSession
             /\ ReleaseCount(session) = 0
             /\ pc = "agent" \/ HasEvent("engine")

\* a turn that was issued after close() created a session and returned
C7_Witness ==
    /\ closed
    /\ call.op = "run_full_turn"
    /\ HasEvent("create")
    /\ HasEvent("engine")
    /\ outcome = "returned"

\* C8: no session has its release operation called twice; release is called
\* by close() only; after a close() every session the instance created has
\* had it called exactly once; and close() on an instance that never created
\* a session calls no release and changes nothing the provider holds.
C8_ReleasedExactlyOnce ==
    /\ \A s \in 1..created : ReleaseCount(s) <= 1
    /\ call.op = "close" => \A s \in 1..created : ReleaseCount(s) = 1
    /\ call.op # "close" => ~(HasEvent("release") \/ HasEvent("release_raised"))
    /\ created = 0 =>
          ~ENABLED (close /\ (ProviderState' # ProviderState \/ events' # <<>>))

\* two sessions were created and released, and the last close() found none
C8_Witness ==
    /\ call.op = "close"
    /\ created = 2
    /\ Len(release_calls) = 2
    /\ events = <<>>

\* C9: when the acknowledgement callback rejects a pending safety check of a
\* computer_call, that is the last thing the turn does: the turn has ended
\* with the safety error, no computer_call_output was produced for that item,
\* and no later item was handled, no device action run, no engine request made.
C9_RejectionStopsTurn ==
    \A i \in DOMAIN events :
        events[i].ev = "ack_no"
            => /\ i = Len(events)
               /\ outcome = "SafetyError"
               /\ pc = "idle"
               /\ pending = <<>>
               /\ result = <<>>
               /\ \A j \in DOMAIN events :
                     ~(events[j].ev = "call_output" /\ events[j].id = events[i].id)

\* the rejected computer_call was the first of a response of two items
C9_Witness ==
    /\ outcome = "SafetyError"
    /\ \E i \in DOMAIN events :
          /\ events[i] = Ev("response", 2)
          /\ i + 1 \in DOMAIN events
          /\ events[Len(events)] = Ev("ack_no", events[i + 1].id)

\* C10: after a run_full_turn call of the interactive loop has failed,
\* conversation_history is what it was when the call was issued: the items
\* passed to the call without the user message, and nothing else.
C10_FailedTurnKeepsHistory ==
    (/\ loop_pc # "off"
     /\ call.op = "run_full_turn"
     /\ pc = "idle"
     /\ outcome # "returned")
        => conversation_history = SubSeq(call.items, 1, Len(call.items) - 1)

\* a second turn was rejected at a safety check and the loop went on
C10_Witness ==
    /\ loop_pc = "input"
    /\ outcome = "SafetyError"
    /\ conversation_history # <<>>

\* C11: a push_to_talk gesture during which Escape was pressed before the
\* release of the hotkey was observed, be it before the hotkey press or while
\* recording, returns the empty string, writes no audio file and makes no
\* call to the STT provider.
C11_CancelledGestureIsEmpty ==
    (vcall.op = "push_to_talk" /\ vpc = "idle" /\ esc_at # {})
        => /\ voutcome = "returned"
           /\ ptt_result = <<>>
           /\ stt_calls = 0
           /\ wav_written = 0

\* C12: a push_to_talk gesture whose audio callback enqueued no frame writes
\* no temporary audio file and does not call the STT provider, at any moment
\* of the gesture, and it returns the empty string.
C12_NoFramesNoTranscription ==
    (vcall.op = "push_to_talk" /\ enqueued = <<>>)
        => /\ stt_calls = 0
           /\ wav_written = 0
           /\ (vpc = "idle" /\ voutcome # "ImportError")
                 => (voutcome = "returned" /\ ptt_result = <<>>)

\* the hotkey was pressed and released and no frame arrived in between
C12_Witness ==
    /\ vcall.op = "push_to_talk"
    /\ vpc = "idle"
    /\ pressed_evt
    /\ released_evt
    /\ enqueued = <<>>
    /\ voutcome = "returned"

C14_OneOutcomePerPlay ==
    /\ Cardinality({ i \in DOMAIN play_log :
                        play_log[i] \in { "spawn", "playsound", "command" } }) <= 1
    /\ play_outcome # "none"
          => /\ play_outcome \in { "completed", "interrupted", "fallback", "failed" }
             /\ play_outcome = "completed"
                   <=> (player_proc = "exited" /\ ~interrupted)
             /\ play_outcome = "interrupted" <=> interrupted
             /\ play_outcome = "fallback"
                   <=> \E i \in DOMAIN play_log : play_log[i] \in { "playsound", "command" }
             /\ play_outcome = "failed"
                   <=> Last(play_log) \in { "spawn_raised", "playsound_failed",
                                            "command_failed", "no_player" }

\* the process had ended by itself when Escape arrived, before listener.stop()
C14_Witness ==
    /\ play_outcome = "interrupted"
    /\ player_proc = "exited"
    /\ play_log = <<"spawn", "ack_beep">>

\* C15: where the blocking play call (playsound) is installed, a play_audio
\* call raises only after that call and the platform's command fallback were
\* both tried and failed; in particular a missing player binary, or a
\* missing key listener, makes it fall back.
C15_RaisesOnlyAfterFallbacks ==
    (playsound /\ play_outcome = "failed")
        => /\ play_log # <<>>
           /\ play_log[1] = "playsound_failed"
           /\ Last(play_log) \in { "playsound_failed", "command_failed", "no_player" }

\* C16: once Escape was pressed during a playback the player process is not
\* running any more (it was terminated, unless it had just ended), and the
\* play_audio call that waits for it eventually returns as interrupted,
\* raising nothing.
C16_CancelStopsPlayback ==
    /\ [](interrupted => player_proc \in { "terminated", "exited" })
    /\ (vpc = "play_wait" /\ interrupted) ~> (play_outcome = "interrupted")

\* a playing process was terminated and play_audio returned
C16_Witness ==
    /\ play_outcome = "interrupted"
    /\ player_proc = "terminated"

\* C17: the step_handler notifications of a turn of the engine are made one
\* per handled item, at the moment the item is handled and before its action
\* runs, hence in the order in which the engine handles the items; and when
\* Agent.run_full_turn returns with print_steps on, every message,
\* function_call and computer_call item it returns has been notified.
C17_StepsInExecutionOrder ==
    /\ \A i \in DOMAIN events :
          events[i].ev = "step"
             => (i > 1 /\ events[i - 1] = Ev("handle_item", events[i].id))
    /\ \A i, j \in DOMAIN events :
          (i < j /\ events[i].ev = "step" /\ events[j].ev = "step")
             => events[i].id < events[j].id
    /\ (agent.print_steps /\ pc = "idle" /\ outcome = "returned")
          => \A k \in DOMAIN result :
                result[k].type \in Narrated
                   => \E i \in DOMAIN events : events[i] = Ev("step", result[k].call_id)

\* a turn with print_steps on returned after a device action and a message
C17_Witness ==
    /\ agent.print_steps
    /\ pc = "idle"
    /\ outcome = "returned"
    /\ Cardinality({ i \in DOMAIN events : events[i].ev = "step" }) = 2
    /\ HasEvent("device")

\* C18: when a provider's run_full_turn, called with valid input, has
\* returned, every message, function_call and computer_call item of the turn
\* caused one call of the step_handler that was passed to run_full_turn.
C18_EveryActionNarrated ==
    (/\ call.op = "run_full_turn"
     /\ ValidInput(call.items)
     /\ pc = "idle"
     /\ outcome = "returned")
        => \A k \in DOMAIN result :
              result[k].type \in Narrated
                 => \E i \in DOMAIN events : events[i] = Ev("step", result[k].call_id)

\* C19: a run_full_turn call in which the engine was invoked and that did not
\* end with a safety or blocklist error has returned an assistant item.
C19_EngineFailureGivesFallback ==
    (/\ call.op = "run_full_turn"
     /\ pc = "idle"
     /\ HasEvent("engine")
     /\ outcome \notin { "SafetyError", "BlocklistError" })
        => /\ outcome = "returned"
           /\ result # <<>>
           /\ Last(result).role = "assistant"

\* C20: while a turn of the desktop variant, called with valid input, is
\* running and has run a device action, the page is not blocklisted: a
\* navigation onto a blocklisted URL, by a computer_call or by a
\* function_call, has failed the turn.
C20_BlocklistAfterEveryNavigation ==
    (/\ variant = "cua"
     /\ call.op = "run_full_turn"
     /\ ValidInput(call.items)
     /\ pc = "agent"
     /\ HasEvent("device"))
        => ~Blocklisted(current_url)

\* C21: the interactive loop issues a run_full_turn call only when no call is
\* in flight, with the history of all earlier turns followed by the new user
\* message, and the history grows only when a call has returned: by that
\* call's user message followed by the items it returned, put after
\* everything that was there.
C21_TurnsInCallOrder ==
    [][/\ (turns' # turns) =>
            /\ loop_pc = "input" /\ loop_pc' = "awaiting"
            /\ pc = "idle"
            /\ call'.items = conversation_history \o <<UserItem(user_input')>>
            /\ conversation_history' = conversation_history
       /\ (conversation_history' # conversation_history) =>
            /\ loop_pc = "awaiting" /\ loop_pc' = "input"
            /\ pc = "idle" /\ outcome = "returned"
            /\ call.items = conversation_history \o <<UserItem(user_input)>>
            /\ conversation_history' = call.items \o result
            /\ turns' = turns]_vars

\* the second turn was issued on the history of the first and has returned
C21_Witness ==
    /\ loop_pc = "input"
    /\ turns = 2
    /\ outcome = "returned"
    /\ Len(call.items) >= 3
    /\ conversation_history = call.items \o result

\* C22: when interactive_loop is over, whichever way it was left, close() has
\* been called on the provider.
C22_CloseOnEveryExit ==
    loop_pc \in { "done", "crashed", "input_raised" } => closed

\* C23: a failing speech-to-text call during push-to-talk input does not end
\* the interactive loop.
C23_VoiceFailureKeepsLoop ==
    loop_pc # "input_raised"

\* C24: when a run_full_turn call of the interactive loop has raised, the loop
\* goes back to waiting for input if the debug flag is off, and is left by
\* the error only if it is on.
C24_TurnErrorKeepsLoop ==
    [][(/\ loop_pc = "awaiting"
        /\ pc = "idle"
        /\ call.op = "run_full_turn"
        /\ outcome # "returned")
          => loop_pc' = IF debug THEN "crashed" ELSE "input"]_vars

\* without the debug flag, a failed turn was followed by another turn
C24_Witness ==
    /\ ~debug
    /\ turns = 2
    /\ loop_pc = "awaiting"
    /\ conversation_history = <<>>

\* C25: when a speak(text, cache=False) call on a non-blank text is over,
\* returned or raised, the temporary file it synthesized into does not exist.
C25_TempFileRemoved ==
    (/\ vcall.op = "speak"
     /\ ~vcall.cache
     /\ strip(vcall.text) # <<>>
     /\ vpc = "idle"
     /\ voutcome # "running")
        => TempPath \notin files

\* C26: no step removes a file of the cache directory: the cache entries
\* that exist keep existing, over cached and uncached speak calls, with
\* playback that succeeds, is interrupted or fails.
C26_CacheAppendOnly ==
    [][\A f \in files : f.dir = "voiceio_cache" => f \in files']_vars

\* a cached speak call synthesized a new entry, its playback failed, and the
\* entry is still there
C26_Witness ==
    /\ vcall.op = "speak"
    /\ vcall.cache
    /\ vpc = "idle"
    /\ voutcome = "PlayError"
    /\ vcall.text \notin warm
    /\ CachedPath(vcall.text) \in files

\* C27: when a push_to_talk call that created a temporary audio file is over,
\* returned or raised, that file does not exist.
C27_WavRemoved ==
    (/\ vcall.op = "push_to_talk"
     /\ vpc = "idle"
     /\ voutcome # "running"
     /\ wav_written > 0)
        => ~wav_exists

\* C28: a transcribe call that met an unreadable file or a failing backend
\* has raised, and one that returned the empty string met a backend that
\* detected no speech.
C28_EmptyOnlyWithoutSpeech ==
    (/\ vcall.op = "push_to_talk"
     /\ vpc = "idle"
     /\ stt_calls > 0)
        => /\ stt_in \in { "unreadable", "fails" } => voutcome = "SttError"
           /\ (voutcome = "returned" /\ ptt_result = <<>>) => stt_in = "no_speech"

\* C29: once the stream of a gesture is closed the callback enqueues no
\* further frame, and when the gesture is over with at least one frame
\* captured, the samples written for the STT provider are the enqueued
\* frames joined in the order of their enqueueing, each one once.
C29_FramesInOrder ==
    /\ [](/\ (vcall.op = "push_to_talk" /\ vpc = "idle" /\ enqueued # <<>>)
               => /\ wav_written = 1
                  /\ audio_data = Concatenate(enqueued)
                  /\ audio_queue = <<>>
          /\ (vpc \in { "play", "play_wait", "ptt_aggregate" } /\ enqueued # <<>>)
               => audio_queue = enqueued)
    /\ [][~stream_open => enqueued' \in { enqueued, <<>> }]_vars

\* a gesture with MaxFrames captured frames was transcribed
C29_Witness ==
    /\ vcall.op = "push_to_talk"
    /\ vpc = "idle"
    /\ Len(enqueued) = MaxFrames
    /\ stt_calls = 1
    /\ voutcome = "returned"
    /\ ptt_result # <<>>

\* C30: what a run_full_turn call returned is a non-empty list whose last
\* item has role assistant; under the browser variant it is one item.
C30_ReturnEndsWithAssistant ==
    (call.op = "run_full_turn" /\ pc = "idle" /\ outcome = "returned")
        => /\ result # <<>>
           /\ Last(result).role = "assistant"
           /\ variant = "browser" => Len(result) = 1

\* a desktop turn returned its bookkeeping items followed by the answer
C30_Witness ==
    /\ variant = "cua"
    /\ call.op = "run_full_turn"
    /\ pc = "idle"
    /\ outcome = "returned"
    /\ Len(result) >= 2
    /\ result[1].role # "assistant"

\* C31: while the start cue of a gesture is playing, the microphone stream
\* and the release listener are already started; and a start or end cue
\* that failed to play leaves the gesture running.
C31_StartCueDoesNotBlock ==
    /\ (/\ vcall.op = "push_to_talk"
        /\ play_ret = "ptt_open"
        /\ vpc = "play_wait"
        /\ player_proc = "running")
          => (stream_open /\ release_listener)
    /\ (/\ vcall.op = "push_to_talk"
        /\ vpc \in { "ptt_open", "ptt_aggregate" }
        /\ play_outcome = "failed")
          => voutcome = "running"

\* C34: once the hotkey press of a gesture has been observed, a release of
\* the hotkey is observed too: while the gesture records with the hotkey up,
\* the released event is set.
C34_ReleaseAlwaysObserved ==
    (/\ vcall.op = "push_to_talk"
     /\ vpc = "ptt_recording"
     /\ pressed_evt
     /\ ~space_down)
        => released_evt

\* C33: every consultation of the acknowledgement callback for a
\* computer_call comes after the device action and the screenshot of that
\* item, and a turn ended by a rejected check has performed the action of the
\* rejected item and produced no output for it.
C33_ActionBeforeAcknowledgement ==
    /\ \A i \in DOMAIN events :
          events[i].ev \in { "ack_yes", "ack_no" } =>
             \E d, c \in 1..(i - 1) :
                /\ d < c
                /\ events[d] = Ev("device", events[i].id)
                /\ events[c] = Ev("screenshot", events[i].id)
    /\ (call.op = "Agent.run_full_turn" /\ pc = "idle" /\ outcome = "SafetyError") =>
          /\ events[Len(events)].ev = "ack_no"
          /\ \E d \in DOMAIN events : events[d] = Ev("device", events[Len(events)].id)
          /\ ~\E o \in DOMAIN events :
                events[o] = Ev("call_output", events[Len(events)].id)

\* a computer_call with a pending check acted on the device and was rejected
C33_Witness ==
    /\ call.op = "Agent.run_full_turn"
    /\ pc = "idle"
    /\ outcome = "SafetyError"
    /\ \E d \in DOMAIN events : events[d].ev = "device"
    /\ events[Len(events)].ev = "ack_no"

\* C35: while a turn runs on the inner Agent of a desktop provider, the
\* Agent's computer is the session the provider holds, and no release was
\* called on it.
C35_AgentOnLiveSession ==
    (/\ variant = "cua"
     /\ agent.set
     /\ pc = "agent"
     /\ ValidInput(call.items))
        => /\ agent.computer = session
           /\ ReleaseCount(agent.computer) = 0

\* C37: every run_full_turn call the interactive loop issues passes the
\* conversation history followed by one user item with the stripped input,
\* which is neither blank nor the exit command; and reading a blank input or
\* the exit command issues no call.
C37_LoopCallsAreValid ==
    [][/\ (turns' # turns) =>
            /\ call'.op = "run_full_turn"
            /\ ValidInput(call'.items)
            /\ SubSeq(call'.items, 1, Len(call'.items) - 1) = conversation_history
            /\ Last(call'.items) = UserItem(user_input')
            /\ lower(user_input') # EXIT
       /\ (loop_pc = "input"
           /\ (strip(user_input') = <<>> \/ lower(user_input') = EXIT)) =>
            /\ call' = call
            /\ turns' = turns]_vars

\* the loop read the exit command after a turn, and issued no further call
C37_Witness ==
    /\ loop_pc = "cleanup"
    /\ user_input = EXIT
    /\ turns = 1
    /\ call.op = "run_full_turn"
    /\ ValidInput(call.items)

\* C36: the acknowledgement beep of a cancelled playback plays only while
\* the cancelled play_audio call has not returned, and never together with
\* the player process of a clip.
C36_OneClipAtATime ==
    ack_cue = "playing"
        => /\ vpc = "play_wait"
           /\ player_proc # "running"

\* C32: whenever the browser provider hands a turn to the engine, the task
\* is the stripped content of the last item, and the context is made of the
\* items before the last one only: one "User/Agent" entry for every user
\* item among them whose next item, also among them, is an assistant item,
\* in list order, joined by blank lines; it is absent exactly when there is
\* no such pair.
C32_ContextFromEarlierPairs ==
    (variant = "browser" /\ call.op = "run_full_turn" /\ HasEvent("engine")) =>
        LET items == call.items
            earlier == SubSeq(items, 1, Len(items) - 1)
            starts == { i \in DOMAIN earlier :
                          /\ i + 1 \in DOMAIN earlier
                          /\ earlier[i].role = "user"
                          /\ earlier[i + 1].role = "assistant" }
            n == Cardinality(starts)
            at == CHOOSE f \in [1..n -> starts] :
                      \A a, b \in 1..n : a < b => f[a] < f[b]
            entry(i) == <<"User: ">> \o earlier[i].content
                        \o <<"\nAgent: ">> \o earlier[i + 1].content
            upto[k \in 0..n] ==
                IF k = 0 THEN <<>>
                ELSE upto[k - 1] \o (IF k > 1 THEN <<"\n\n">> ELSE <<>>) \o entry(at[k])
        IN  /\ engine_in.task = strip(Last(items).content)
            /\ engine_in.has_context = (starts # {})
            /\ engine_in.context = upto[n]

\* the engine got a turn whose history holds an unpaired user item, then a
\* pair, then the user item before the current message
C32_Witness ==
    /\ variant = "browser"
    /\ call.op = "run_full_turn"
    /\ HasEvent("engine")
    /\ Len(call.items) = MaxHistory
    /\ call.items[1].role = "user"
    /\ call.items[2].role = "user"
    /\ call.items[3].role = "assistant"
    /\ call.items[4].role = "user"
    /\ engine_in.has_context

\* C38: at the head of the loop of Agent.run_full_turn (every output of the
\* latest response handled), the turn returns the accumulated items exactly
\* when the last of them has role assistant; otherwise, however many requests
\* were made before, the next step is another engine request, whose context
\* is the system item, the input items and everything accumulated so far, in
\* that order.  A turn returns nowhere else.
C38_ReturnsOnlyOnAssistant ==
    [][/\ (pc = "agent" /\ pending = <<>>) =>
            IF new_items # <<>> /\ Last(new_items).role = "assistant"
            THEN /\ pc' = "idle"
                 /\ outcome' = "returned"
                 /\ result' = new_items
                 /\ events' = events
            ELSE /\ Len(events') > Len(events)
                 /\ events'[Len(events) + 1].ev = "engine"
                 /\ engine_in'.context = (<<SystemItem>> \o call.items) \o new_items
                 /\ outcome' # "returned"
       /\ (outcome' = "returned" /\ pc = "agent") =>
            /\ pending = <<>>
            /\ new_items # <<>>
            /\ Last(new_items).role = "assistant"]_vars

\* a turn returned after its second request, whose context ended with the
\* function call of the first response and the output of that call
C38_Witness ==
    /\ outcome = "returned"
    /\ call.op = "Agent.run_full_turn"
    /\ call.items # <<>>
    /\ Len(engine_in.context) = 1 + Len(call.items) + 2
    /\ engine_in.context[1] = SystemItem
    /\ Last(engine_in.context).type = "function_call_output"
    /\ Len(result) = 3
    /\ Last(result).role = "assistant"

====
